---- MODULE Spec2Model ----
(***************************************************************************)
(* Model of fleet_live_tracker.py: a Streamlit script that reads the user  *)
(* location, reads a spreadsheet column of vehicle identifiers, fetches    *)
(* each vehicle's live position through a 20-thread pool, ranks the        *)
(* records by distance from the user and renders the nearest 30.           *)
(*                                                                         *)
(* Representation                                                          *)
(*  - a Python str is a sequence of one-character strings;                 *)
(*  - a Python float is a record [k, v]: k = "fin" with v the value in     *)
(*    hundredths (fixed point, two fractional digits), k = "nan", or       *)
(*    k = "inf" with v the sign;                                           *)
(*  - an optional value (None or x) is the set {} or {x};                  *)
(*  - a vehicle identifier is a positive integer, a null cell is 0.        *)
(***************************************************************************)
EXTENDS Integers, Sequences, FiniteSets, TLC

\* ------------------------------------------------------------------ bounds

\* identifiers that may appear in an uploaded column (Spec)
MaxVins == 2
\* rows of an uploaded column (Spec)
MaxRows == 2
\* identifiers of the uploaded column in PoolSpec (more than the pool's threads)
PoolVins == 22
\* longest record list handed to the ranker in RankSpec (more than the cut)
RankMaxLen == 32

\* ------------------------------------------------------- program constants

\* ThreadPoolExecutor(max_workers=20)
MaxWorkers == 20
\* live_df.head(30)
TopN == 30
\* if response.status_code != 200
StatusOK == 200

\* a null (NaN) spreadsheet cell, removed by dropna()
NullCell == 0

None == {}
Some(x) == {x}
TheOne(s) == CHOOSE x \in s : TRUE

Min(a, b) == IF a <= b THEN a ELSE b
Abs(x) == IF x < 0 THEN -x ELSE x
Range(s) == {s[i] : i \in 1..Len(s)}

\* ------------------------------------------------- str.split and float()

Digits == <<"0", "1", "2", "3", "4", "5", "6", "7", "8", "9">>
IsDigit(c) == \E d \in 1..10 : Digits[d] = c
DigitVal(c) == (CHOOSE d \in 1..10 : Digits[d] = c) - 1

\* s.split(","): the maximal comma-free pieces, empty ones included
RECURSIVE SplitFrom(_, _, _)
SplitFrom(s, i, cur) ==
  IF i > Len(s) THEN <<cur>>
  ELSE IF s[i] = "," THEN <<cur>> \o SplitFrom(s, i + 1, <<>>)
  ELSE SplitFrom(s, i + 1, Append(cur, s[i]))

Split(s) == SplitFrom(s, 1, <<>>)

\* float() strips surrounding whitespace first
RECURSIVE LStrip(_)
LStrip(s) == IF s # <<>> /\ Head(s) = " " THEN LStrip(Tail(s)) ELSE s

RECURSIVE RStrip(_)
RStrip(s) ==
  IF s # <<>> /\ s[Len(s)] = " " THEN RStrip(SubSeq(s, 1, Len(s) - 1)) ELSE s

Strip(s) == RStrip(LStrip(s))

RECURSIVE DigitsValue(_)
DigitsValue(s) ==
  IF s = <<>> THEN 0 ELSE 10 * DigitsValue(SubSeq(s, 1, Len(s) - 1)) + DigitVal(s[Len(s)])

AllDigits(s) == \A i \in 1..Len(s) : IsDigit(s[i])

Fin(v) == [k |-> "fin", v |-> v]
NaN == [k |-> "nan", v |-> 0]
Inf(sign) == [k |-> "inf", v |-> sign]

\* the unsigned part of a float literal: "nan", "inf", or digits with an
\* optional point. The modelled inputs are lower case, have at most two
\* fractional digits and use no exponent and no underscore.
FloatBody(s, sign) ==
  LET dots == {i \in 1..Len(s) : s[i] = "."}
      dot == IF dots = {} THEN Len(s) + 1 ELSE TheOne(dots)
      ip == SubSeq(s, 1, dot - 1)
      fp == SubSeq(s, dot + 1, Len(s))
      scaled == IF Len(fp) = 0 THEN 0
                ELSE IF Len(fp) = 1 THEN 10 * DigitsValue(fp)
                ELSE DigitsValue(SubSeq(fp, 1, 2))
  IN  IF s = <<"n", "a", "n">> THEN Some(NaN)
      ELSE IF s = <<"i", "n", "f">> THEN Some(Inf(sign))
      ELSE IF Cardinality(dots) > 1 THEN None
      ELSE IF ~(AllDigits(ip) /\ AllDigits(fp)) THEN None
      ELSE IF Len(ip) + Len(fp) = 0 THEN None
      ELSE Some(Fin(sign * (100 * DigitsValue(ip) + scaled)))

\* float(s): {} when float() raises ValueError, else the one value
ParseFloat(s0) ==
  LET s == Strip(s0)
  IN  IF s = <<>> THEN None
      ELSE IF Head(s) = "-" THEN FloatBody(Tail(s), -1)
      ELSE IF Head(s) = "+" THEN FloatBody(Tail(s), 1)
      ELSE FloatBody(s, 1)

\* lat, lon = map(float, location.split(",")): {} when a float() raises or the
\* number of pieces is not two, else the one pair
ParseLocation(s) ==
  LET parts == Split(s)
  IN  IF Len(parts) # 2 THEN None
      ELSE IF ParseFloat(parts[1]) = None \/ ParseFloat(parts[2]) = None THEN None
      ELSE Some(<<TheOne(ParseFloat(parts[1])), TheOne(ParseFloat(parts[2]))>>)


\* str(n) for the integers the generated responses use
RECURSIVE NatToStr(_)
NatToStr(n) ==
  IF n < 10 THEN <<Digits[n + 1]>> ELSE Append(NatToStr(n \div 10), Digits[(n % 10) + 1])

IntToStr(n) == IF n < 0 THEN <<"-">> \o NatToStr(-n) ELSE NatToStr(n)

\* ------------------------------------------------- the tracking endpoint

\* what requests.get(url, timeout=10) comes back with: an exception
\* ("timeout", "connerr") or a response with a status code and a body
Body(json, location, battery, updated) ==
  [json |-> json, location |-> location, batteryCharge |-> battery, lastUpdated |-> updated]

StrVal(s) == [str |-> TRUE, s |-> s]
NumVal == [str |-> FALSE, s |-> <<>>]

Raised(kind) == [kind |-> kind, status |-> 0, body |-> Body("bad", None, None, None)]
Http(status, body) == [kind |-> "http", status |-> status, body |-> body]

Loc_Home == <<"1", "2", ".", "9", ",", "7", "7", ".", "6">>
Loc_Far == <<"-", "5", ",", " ", "3">>
Loc_Alpha == <<"a", "b", ",", "1">>
Loc_ThreeParts == <<"1", ",", "2", ",", "3">>
Loc_NaN == <<"n", "a", "n", ",", "7">>
Loc_OutOfRange == <<"9", "5", ",", "1", "0">>

GoodBody == Body("dict", Some(StrVal(Loc_Home)), Some(80), Some("t1"))

\* the responses the endpoint is taken to give in Spec
Responses ==
  { Raised("timeout"),
    Raised("connerr"),
    Http(404, GoodBody),
    Http(201, GoodBody),
    Http(StatusOK, Body("bad", None, None, None)),
    Http(StatusOK, Body("list", None, None, None)),
    Http(StatusOK, Body("dict", None, Some(80), Some("t1"))),
    Http(StatusOK, Body("dict", Some(NumVal), None, None)),
    Http(StatusOK, Body("dict", Some(StrVal(Loc_Alpha)), None, None)),
    Http(StatusOK, Body("dict", Some(StrVal(Loc_ThreeParts)), None, None)),
    Http(StatusOK, Body("dict", Some(StrVal(Loc_NaN)), None, None)),
    Http(StatusOK, Body("dict", Some(StrVal(Loc_OutOfRange)), None, None)),
    Http(StatusOK, GoodBody),
    Http(StatusOK, Body("dict", Some(StrVal(Loc_Home)), None, None)),
    Http(StatusOK, Body("dict", Some(StrVal(Loc_Far)), Some(15), None)) }

\* a 200 response whose location is the integer pair (lat, lon)
OkAt(lat, lon) ==
  Http(StatusOK, Body("dict", Some(StrVal(IntToStr(lat) \o <<",">> \o IntToStr(lon))), None, None))

\* ------------------------------------------------------------ fetch_live

Record(vin, lat, lon, battery, updated) ==
  [VIN |-> vin, Latitude |-> lat, Longitude |-> lon, Battery |-> battery, LastUpdated |-> updated]

\* fetch_live with the two coordinates taken in the wrong order
FetchLive_Swapped(vin, r) ==
  IF r.kind # "http" \/ r.status # StatusOK \/ r.body.json # "dict" THEN None
  ELSE IF r.body.location = None THEN None
  ELSE IF ~TheOne(r.body.location).str THEN None
  ELSE LET p == ParseLocation(TheOne(r.body.location).s)
       IN  IF p = None THEN None
           ELSE Some(Record(vin, TheOne(p)[2], TheOne(p)[1],
                            r.body.batteryCharge, r.body.lastUpdated))

\* the status test of fetch_live
StatusAccepted(status) == status = StatusOK

\* fetch_live(vin) when requests.get ends with r: {} for None, else the record
FetchLive(vin, r) ==
  IF r.kind # "http" THEN None
  ELSE IF ~StatusAccepted(r.status) THEN None
  ELSE IF r.body.json # "dict" THEN None
  ELSE IF r.body.location = None THEN None
  ELSE IF ~TheOne(r.body.location).str THEN None
  ELSE LET p == ParseLocation(TheOne(r.body.location).s)
       IN  IF p = None THEN None
           ELSE Some(Record(vin, TheOne(p)[1], TheOne(p)[2],
                            r.body.batteryCharge, r.body.lastUpdated))

\* ------------------------------------------------------ identifier column

\* df["vehicleId"].dropna().unique().tolist(): the non-null cells, each once,
\* in order of first appearance
RECURSIVE Unique(_)
Unique(cells) ==
  IF cells = <<>> THEN <<>>
  ELSE LET front == Unique(SubSeq(cells, 1, Len(cells) - 1))
           x == cells[Len(cells)]
       IN  IF x \in Range(front) THEN front ELSE Append(front, x)

Dropna(cells) == SelectSeq(cells, LAMBDA x : x # NullCell)

VinList(cells) == Unique(Dropna(cells))

\* ------------------------------------------------------ distance and sort

\* geodesic((USER_LAT, USER_LON), (lat, lon)) raises ValueError when geopy
\* rejects the point: a coordinate that is not finite, or a latitude outside
\* [-90, 90]
GeodesicRaises(rec) ==
  \/ rec.Latitude.k # "fin"
  \/ rec.Longitude.k # "fin"
  \/ Abs(rec.Latitude.v) > 9000

\* the distance itself, used only to order records: a taxicab surrogate of
\* the ellipsoidal distance, in hundredths of a degree
GeodesicKm(user, rec) ==
  Abs(user[1] - rec.Latitude.v) + Abs(user[2] - rec.Longitude.v)

WithDistance(user, rec) == [rec |-> rec, km |-> GeodesicKm(user, rec)]

\* sort_values("Distance (km)") with the default kind="quicksort", which is
\* not a stable sort: every ascending arrangement of the rows is a possible
\* outcome. Each arrangement is a sequence of row positions.
RECURSIVE SortedOrdersOf(_, _)
SortedOrdersOf(rows, left) ==
  IF left = {} THEN {<<>>}
  ELSE LET least == {i \in left : \A j \in left : rows[i].km <= rows[j].km}
       IN  UNION {{<<i>> \o t : t \in SortedOrdersOf(rows, left \ {i})} : i \in least}

SortValues(rows) == SortedOrdersOf(rows, 1..Len(rows))

\* a cut one row too long
Head30_OneMore(rows) == SubSeq(rows, 1, Min(TopN + 1, Len(rows)))

\* live_df.head(30)
Head30(rows) == SubSeq(rows, 1, Min(TopN, Len(rows)))


\* ------------------------------------------------------------------ state

VARIABLES
  pc,          \* where the script is: "start", "upload", "read", "fetch",
               \* "check", "rank", "render", "done", a "halt_*" (st.stop()) or
               \* "crash_rank" or "crash_progress" (an uncaught exception in
               \* the ranking, or in the progress update)
  loc,         \* get_geolocation(): {} or {<<lat, lon>>}, hundredths of a degree
  file,        \* the uploader's value: NotAsked, NoFile or Uploaded(sheet)
  VIN_LIST,    \* the identifiers to fetch
  submitted,   \* how many of VIN_LIST executor.submit has taken
  queue,       \* the executor's work queue
  numThreads,  \* the executor's worker threads
  running,     \* identifiers whose fetch_live is in requests.get
  issued,      \* identifier -> GET requests sent for it
  resp,        \* identifier -> what its request ended with
  future,      \* identifier -> result of its finished future
  yielded,     \* identifiers whose future as_completed has yielded
  results,     \* the result list
  progress,    \* the last value given to the progress bar, <<num, den>>
  TOP,         \* the ranked rows, each [rec, km]
  log          \* what the page has shown, in order

vars == <<pc, loc, file, VIN_LIST, submitted, queue, numThreads, running, issued,
          resp, future, yielded, results, progress, TOP, log>>

Say(msg) == log' = Append(log, msg)

Vins == 1..MaxVins

\* the user locations the browser is taken to report
UserLocs == {<<1290, 7760>>, <<0, 0>>}

RECURSIVE SeqsUpTo(_, _)
SeqsUpTo(S, n) ==
  IF n = 0 THEN {<<>>}
  ELSE LET shorter == SeqsUpTo(S, n - 1)
       IN  shorter \cup {Append(q, x) : q \in {r \in shorter : Len(r) = n - 1}, x \in S}

\* the spreadsheets a user is taken to upload
Sheet(columns, cells) == [columns |-> columns, cells |-> cells]

Files ==
  {Sheet({"vehicle_id"}, <<>>), Sheet({}, <<>>)}
    \cup {Sheet({"vehicleId", "city"}, c) : c \in SeqsUpTo(Vins \cup {NullCell}, MaxRows)}

\* st.file_uploader: not yet run, returned None, or returned a file
NotAsked == [state |-> "unset", sheet |-> Sheet({}, <<>>)]
NoFile == [state |-> "none", sheet |-> Sheet({}, <<>>)]
Uploaded(sheet) == [state |-> "file", sheet |-> sheet]

Init ==
  /\ pc = "start"
  /\ loc = None
  /\ file = NotAsked
  /\ VIN_LIST = <<>>
  /\ submitted = 0
  /\ queue = <<>>
  /\ numThreads = 0
  /\ running = {}
  /\ issued = <<>>
  /\ resp = <<>>
  /\ future = <<>>
  /\ yielded = {}
  /\ results = <<>>
  /\ progress = <<0, 1>>
  /\ TOP = <<>>
  /\ log = <<>>

finished == DOMAIN future
total == Len(VIN_LIST)

\* ------------------------------------------------------- location and file

\* lines 23-33
GetGeolocation(l) ==
  /\ pc = "start"
  /\ loc' = l
  /\ IF l = None
       THEN Say("warning: allow location") /\ pc' = "halt_location"
       ELSE Say("success: your location") /\ pc' = "upload"
  /\ UNCHANGED <<file, VIN_LIST, submitted, queue, numThreads, running, issued, resp,
                 future, yielded, results, progress, TOP>>

\* lines 40-45
FileUpload(f) ==
  /\ pc = "upload"
  /\ file' = f
  /\ IF f = NoFile
       THEN Say("info: upload file") /\ pc' = "halt_nofile"
       ELSE pc' = "read" /\ UNCHANGED log
  /\ UNCHANGED <<loc, VIN_LIST, submitted, queue, numThreads, running, issued, resp,
                 future, yielded, results, progress, TOP>>

\* a column test that takes any header
HasVinColumn_AnyName(sheet) == sheet.columns # {}

\* the column with its null cells dropped and its duplicates kept
ColumnVins_KeepDuplicates(sheet) == Dropna(sheet.cells)

\* "vehicleId" in df.columns
HasVinColumn(sheet) == "vehicleId" \in sheet.columns

\* df["vehicleId"].dropna().unique().tolist()
ColumnVins(sheet) == VinList(sheet.cells)

\* lines 48-55 and, when the column is there, 100-106
ReadExcel ==
  /\ pc = "read"
  /\ LET sheet == file.sheet
     IN  IF ~HasVinColumn(sheet)
           THEN /\ Say("error: no vehicleId column")
                /\ pc' = "halt_input"
                /\ UNCHANGED <<VIN_LIST, issued>>
           ELSE /\ VIN_LIST' = ColumnVins(sheet)
                /\ issued' = [v \in Range(VIN_LIST') |-> 0]
                /\ Say("info: fetching")
                /\ pc' = "fetch"
  /\ progress' = <<0, 1>>
  /\ results' = <<>>
  /\ UNCHANGED <<loc, file, submitted, queue, numThreads, running, resp, future,
                 yielded, TOP>>

\* ------------------------------------------------------------- thread pool

\* a thread cap off by one
MayAddThread_OffByOne(n) == n <= MaxWorkers

\* ThreadPoolExecutor._adjust_thread_count: submit starts a new worker when no
\* worker is idle and fewer than max_workers exist. The idle count is the tasks
\* finished less the submits that found an idle worker, which is the threads
\* less the tasks queued or running.
MayAddThread(n) == n < MaxWorkers

ThreadsAfterSubmit ==
  IF numThreads - Cardinality(running) - Len(queue) > 0 THEN numThreads
  ELSE IF MayAddThread(numThreads) THEN numThreads + 1
  ELSE numThreads

\* one executor.submit(fetch_live, vin) of the dict comprehension, lines 111-115
Submit ==
  /\ pc = "fetch"
  /\ submitted < total
  /\ queue' = Append(queue, VIN_LIST[submitted + 1])
  /\ numThreads' = ThreadsAfterSubmit
  /\ submitted' = submitted + 1
  /\ UNCHANGED <<pc, loc, file, VIN_LIST, running, issued, resp, future, yielded,
                 results, progress, TOP, log>>

\* a free worker takes the oldest queued identifier and fetch_live sends its GET
StartTask ==
  /\ queue # <<>>
  /\ Cardinality(running) < numThreads
  /\ LET vin == Head(queue)
     IN  /\ running' = running \cup {vin}
         /\ issued' = [issued EXCEPT ![vin] = @ + 1]
  /\ queue' = Tail(queue)
  /\ UNCHANGED <<pc, loc, file, VIN_LIST, submitted, numThreads, resp, future,
                 yielded, results, progress, TOP, log>>

\* requests.get of vin ends with r; fetch_live returns and the future is done
FinishTask(vin, r) ==
  /\ vin \in running
  /\ running' = running \ {vin}
  /\ resp' = [v \in DOMAIN resp \cup {vin} |-> IF v = vin THEN r ELSE resp[v]]
  /\ future' = [v \in finished \cup {vin} |-> IF v = vin THEN FetchLive(vin, r) ELSE future[v]]
  /\ UNCHANGED <<pc, loc, file, VIN_LIST, submitted, queue, numThreads, issued,
                 yielded, results, progress, TOP, log>>

\* as_completed yields the futures that are done and not yet yielded
Yieldable == finished \ yielded

\* a loop that also stops at the first failed future
LoopOver_StopOnFailure ==
  \/ yielded = Range(VIN_LIST)
  \/ \E v \in yielded : future[v] = None

\* the loop of lines 117-125 is over when every future has been yielded
LoopOver == yielded = Range(VIN_LIST)

\* one iteration of the as_completed loop, lines 117-125
Collect(vin) ==
  /\ pc = "fetch"
  /\ submitted = total
  /\ vin \in Yieldable
  /\ yielded' = yielded \cup {vin}
  /\ results' = IF future[vin] # None THEN Append(results, TheOne(future[vin])) ELSE results
  /\ IF total = 0
       THEN pc' = "crash_progress" /\ UNCHANGED progress
       ELSE progress' = <<Cardinality(yielded) + 1, total>> /\ UNCHANGED pc
  /\ UNCHANGED <<loc, file, VIN_LIST, submitted, queue, numThreads, running,
                 issued, resp, future, TOP, log>>

\* the loop ends and the with block shuts the executor down (wait=True)
ExitPool ==
  /\ pc = "fetch"
  /\ submitted = total
  /\ LoopOver
  /\ queue = <<>> /\ running = {}
  /\ pc' = "check"
  /\ UNCHANGED <<loc, file, VIN_LIST, submitted, queue, numThreads, running, issued,
                 resp, future, yielded, results, progress, TOP, log>>

\* ------------------------------------------------------ check, rank, render

\* an empty check that never fires
NoLiveData_Never(res) == Len(res) < 0

\* if len(results) == 0
NoLiveData(res) == Len(res) = 0

\* lines 128-134
EmptyCheck ==
  /\ pc = "check"
  /\ IF NoLiveData(results)
       THEN Say("error: no live data") /\ pc' = "halt_empty"
       ELSE pc' = "rank" /\ UNCHANGED log
  /\ UNCHANGED <<loc, file, VIN_LIST, submitted, queue, numThreads, running, issued,
                 resp, future, yielded, results, progress, TOP>>

\* lines 141-159
Rank ==
  /\ pc = "rank"
  /\ IF \E i \in 1..Len(results) : GeodesicRaises(results[i])
       THEN pc' = "crash_rank" /\ UNCHANGED TOP
       ELSE LET rows == [i \in 1..Len(results) |-> WithDistance(TheOne(loc), results[i])]
            IN  \E order \in SortValues(rows) :
                  /\ TOP' = Head30([i \in 1..Len(rows) |-> rows[order[i]]])
                  /\ pc' = "render"
  /\ UNCHANGED <<loc, file, VIN_LIST, submitted, queue, numThreads, running, issued,
                 resp, future, yielded, results, progress, log>>

\* lines 166-231
Render ==
  /\ pc = "render"
  /\ log' = log \o <<"table", "map", "success: complete">>
  /\ pc' = "done"
  /\ UNCHANGED <<loc, file, VIN_LIST, submitted, queue, numThreads, running, issued,
                 resp, future, yielded, results, progress, TOP>>

\* -------------------------------------------------------------------- Spec

Next ==
  \/ \E l \in {None} \cup {Some(u) : u \in UserLocs} : GetGeolocation(l)
  \/ \E f \in {NoFile} \cup {Uploaded(s) : s \in Files} : FileUpload(f)
  \/ ReadExcel
  \/ Submit
  \/ StartTask
  \/ \E vin \in running, r \in Responses : FinishTask(vin, r)
  \/ \E vin \in Yieldable : Collect(vin)
  \/ ExitPool
  \/ EmptyCheck
  \/ Rank
  \/ Render

Spec == Init /\ [][Next]_vars


\* ---------------------------------------------------------------- PoolSpec
\* The fetch stage on a column of PoolVins identifiers, more than the pool has
\* threads. The endpoint's answer is fixed per identifier and requests end in
\* the order they were sent; as_completed yields the lowest finished
\* identifier. Submission, worker and loop steps interleave
\* freely.

SetMin(S) == CHOOSE x \in S : \A y \in S : x <= y

PoolResponse(vin) == IF vin % 3 = 0 THEN Raised("timeout") ELSE OkAt(vin, 10)

\* the script after ReadExcel on a sheet whose column is 1..n
AfterReadExcel(user, n) ==
  /\ pc = "fetch"
  /\ loc = Some(user)
  /\ file = Uploaded(Sheet({"vehicleId", "city"}, [i \in 1..n |-> i]))
  /\ VIN_LIST = [i \in 1..n |-> i]
  /\ submitted = 0
  /\ queue = <<>>
  /\ numThreads = 0
  /\ running = {}
  /\ issued = [v \in 1..n |-> 0]
  /\ resp = <<>>
  /\ future = <<>>
  /\ yielded = {}
  /\ results = <<>>
  /\ progress = <<0, 1>>
  /\ TOP = <<>>
  /\ log = <<"success: your location", "info: fetching">>

PoolInit == \E user \in UserLocs : AfterReadExcel(user, PoolVins)

PoolNext ==
  \/ Submit
  \/ StartTask
  \/ \E vin \in {v \in running : v = SetMin(running)} :
       FinishTask(vin, PoolResponse(vin))
  \/ \E vin \in {v \in Yieldable : v = SetMin(Yieldable)} : Collect(vin)
  \/ ExitPool
  \/ EmptyCheck
  \/ Rank
  \/ Render

PoolSpec == PoolInit /\ [][PoolNext]_vars

\* ---------------------------------------------------------------- RankSpec
\* The ranking on record lists of up to RankMaxLen records, longer than the
\* cut at 30: the script right after the empty check, with every identifier
\* fetched successfully.

RankLens == {1, 2} \cup ((TopN - 1)..RankMaxLen)

\* the latitude, in whole degrees, of the i-th vehicle
PatternLat(i, a, b, m) == (a * i + b) % m

AfterEmptyCheck(user, n, a, b, m) ==
  LET answer == [i \in 1..n |-> OkAt(PatternLat(i, a, b, m), 0)]
  IN  /\ pc = "rank"
      /\ loc = Some(user)
      /\ file = Uploaded(Sheet({"vehicleId", "city"}, [i \in 1..n |-> i]))
      /\ VIN_LIST = [i \in 1..n |-> i]
      /\ submitted = n
      /\ queue = <<>>
      /\ numThreads = Min(n, MaxWorkers)
      /\ running = {}
      /\ issued = [v \in 1..n |-> 1]
      /\ resp = answer
      /\ future = [i \in 1..n |-> FetchLive(i, answer[i])]
      /\ yielded = 1..n
      /\ results = [i \in 1..n |-> TheOne(FetchLive(i, answer[i]))]
      /\ progress = <<n, n>>
      /\ TOP = <<>>
      /\ log = <<"success: your location", "info: fetching">>

RankInit ==
  \E user \in UserLocs, n \in RankLens, a \in {1, 3, 5}, b \in 0..2, m \in {29, 31, 37} :
    AfterEmptyCheck(user, n, a, b, m)

RankNext == Rank \/ Render

RankSpec == RankInit /\ [][RankNext]_vars

\* ---------------------------------------------------------------- FairSpec
\* Every thread keeps running: the main thread takes its next step, a free
\* worker takes the next queued task, and no request stays in flight for
\* ever, since requests.get is given timeout=10. A request either fails or
\* succeeds; which failure or which body does not matter here.

FairResponses == {Raised("timeout"), Http(StatusOK, GoodBody)}

FairNext ==
  \/ \E l \in {None} \cup {Some(u) : u \in UserLocs} : GetGeolocation(l)
  \/ \E f \in {NoFile} \cup {Uploaded(s) : s \in Files} : FileUpload(f)
  \/ ReadExcel
  \/ Submit
  \/ StartTask
  \/ \E vin \in running, r \in FairResponses : FinishTask(vin, r)
  \/ \E vin \in Yieldable : Collect(vin)
  \/ ExitPool
  \/ EmptyCheck
  \/ Rank
  \/ Render

\* the steps of the script's own thread
MainThread ==
  \/ \E l \in {None} \cup {Some(u) : u \in UserLocs} : GetGeolocation(l)
  \/ \E f \in {NoFile} \cup {Uploaded(s) : s \in Files} : FileUpload(f)
  \/ ReadExcel
  \/ Submit
  \/ \E vin \in Yieldable : Collect(vin)
  \/ ExitPool
  \/ EmptyCheck
  \/ Rank
  \/ Render

\* a request in flight reaches its timeout
TimesOut == \E vin \in running : FinishTask(vin, Raised("timeout"))

FairSpec ==
  /\ Init
  /\ [][FairNext]_vars
  /\ WF_vars(MainThread)
  /\ WF_vars(StartTask)
  /\ WF_vars(TimesOut)


\* ------------------------------------------------------------- vocabulary

\* the script is past the with block of lines 109-125
PostFetch == {"check", "halt_empty", "rank", "render", "done", "crash_rank"}

NoRequests == \A v \in DOMAIN issued : issued[v] = 0

\* the non-null cells of the uploaded column
NonNullCells == {x \in Range(file.sheet.cells) : x # NullCell}

HasRecord(vin) == \E i \in 1..Len(results) : results[i].VIN = vin
RecordsOf(vin) == {i \in 1..Len(results) : results[i].VIN = vin}
PositionOf(rec) == CHOOSE i \in 1..Len(results) : results[i] = rec

Is2xx(status) == status \in 200..299

\* a piece of text that is a number: what float() reads as a finite value
IsNumber(s) == ParseFloat(s) # None /\ TheOne(ParseFloat(s)).k = "fin"

\* a location field that is a string of two numbers joined by a comma
NumericLocation(body) ==
  /\ body.json = "dict"
  /\ body.location # None
  /\ TheOne(body.location).str
  /\ LET parts == Split(TheOne(body.location).s)
     IN  Len(parts) = 2 /\ IsNumber(parts[1]) /\ IsNumber(parts[2])

\* the request ended in one of the failures the fetcher is to discard
FailedRequest(r) ==
  \/ r.kind # "http"
  \/ ~Is2xx(r.status)
  \/ ~NumericLocation(r.body)

\* the well-formed location strings of Responses, with the numbers they spell
WellFormedLocs ==
  { [s |-> Loc_Home, lat |-> 1290, lon |-> 7760],
    [s |-> Loc_Far, lat |-> -500, lon |-> 300] }

Carries(r, w) ==
  /\ r.kind = "http"
  /\ r.body.json = "dict"
  /\ r.body.location = Some(StrVal(w.s))

\* ------------------------------------------------------------------ claims

\* C1: an identifier whose request ended in a non-2xx status, a timeout, a
\* connection error, a malformed body, a missing location or a non-numeric
\* location string has no record in the result list, and no record of the
\* list has an undefined latitude or longitude.
C1_FailedRequestLeavesNoRecord ==
  /\ \A v \in DOMAIN resp : FailedRequest(resp[v]) => ~HasRecord(v)
  /\ \A i \in 1..Len(results) :
       results[i].Latitude.k = "fin" /\ results[i].Longitude.k = "fin"

\* C2: over the whole run exactly one request is sent per distinct non-null
\* identifier of the column: none before the column is read, never two for one
\* identifier (also after a failure), none for anything else, and one for each
\* once the fetch stage is over.
C2_OneRequestPerIdentifier ==
  /\ \A v \in DOMAIN issued : issued[v] <= 1
  /\ pc \in {"start", "upload", "read"} \cup {"halt_location", "halt_nofile", "halt_input"}
       => issued = <<>>
  /\ pc \in {"fetch"} \cup PostFetch =>
       /\ DOMAIN issued = NonNullCells
       /\ Range(VIN_LIST) = NonNullCells
       /\ Len(VIN_LIST) = Cardinality(NonNullCells)
  /\ pc \in PostFetch => \A v \in NonNullCells : issued[v] = 1

C2_Witness ==
  /\ pc = "check"
  /\ file.sheet.cells = <<1, 1>>
  /\ issued[1] = 1
  /\ future[1] = None

\* C3: once the ranking is done, TOP is sorted non-decreasing by distance, has
\* min(30, number of records) rows, each row is a record of the result list
\* with its distance from the user, no record appears twice, and no record
\* left out is strictly closer than a record that is in.
C3_TopIsNearestSorted ==
  pc \in {"render", "done"} =>
    /\ Len(TOP) = Min(TopN, Len(results))
    /\ \A i \in 1..(Len(TOP) - 1) : TOP[i].km <= TOP[i + 1].km
    /\ \A i \in 1..Len(TOP) :
         /\ TOP[i].rec \in Range(results)
         /\ TOP[i].km = GeodesicKm(TheOne(loc), TOP[i].rec)
    /\ \A i, j \in 1..Len(TOP) : i # j => TOP[i].rec # TOP[j].rec
    /\ \A k \in 1..Len(results) :
         (\A i \in 1..Len(TOP) : TOP[i].rec # results[k]) =>
           \A i \in 1..Len(TOP) : GeodesicKm(TheOne(loc), results[k]) >= TOP[i].km

C3_Witness ==
  /\ pc = "done"
  /\ Len(results) > TopN
  /\ Len(TOP) = TopN
  /\ \E i \in 1..(Len(TOP) - 1) : TOP[i].km = TOP[i + 1].km

\* C4: a request is sent only in a run that obtained the location, then got a
\* file, and found the vehicleId column in it; without a location the run
\* halts before the file stage, and a file without the column halts the run
\* with the input error; in both cases no request is sent.
C4_RequestsOnlyAfterInputs ==
  /\ file # NotAsked => loc # None
  /\ ~NoRequests => loc # None /\ file.state = "file" /\ "vehicleId" \in file.sheet.columns
  /\ loc = None /\ pc # "start" =>
       pc = "halt_location" /\ file = NotAsked /\ NoRequests /\ log = <<"warning: allow location">>
  /\ (file.state = "file" /\ "vehicleId" \notin file.sheet.columns /\ pc # "read") =>
       /\ pc = "halt_input"
       /\ NoRequests
       /\ queue = <<>> /\ running = {}
       /\ log[Len(log)] = "error: no vehicleId column"

C4_Witness ==
  /\ pc = "halt_input"
  /\ "vehicle_id" \in file.sheet.columns
  /\ NoRequests

\* C5: when the result list is empty after the fetch stage the run shows the
\* one "no live data" error and halts, the ranking, the table and the map are
\* never reached with an empty list, and with no identifier no progress update
\* is made (so none divides by zero).
C5_EmptyResultHalts ==
  /\ pc \in (PostFetch \ {"check"}) /\ results = <<>> =>
       /\ pc = "halt_empty"
       /\ Cardinality({i \in 1..Len(log) : log[i] = "error: no live data"}) = 1
       /\ log[Len(log)] = "error: no live data"
       /\ \A i \in 1..Len(log) : log[i] \notin {"table", "map", "success: complete"}
       /\ TOP = <<>>
  /\ pc = "halt_empty" => results = <<>>
  /\ pc # "crash_progress"
  /\ pc \in {"fetch"} \cup PostFetch /\ total = 0 => progress = <<0, 1>>

C5_Witness ==
  /\ pc = "halt_empty"
  /\ total = 2
  /\ \A v \in Range(VIN_LIST) : issued[v] = 1 /\ future[v] = None

\* C6 as stated: a request that got a 2xx response carrying a well-formed
\* "lat,lon" location has a record as the result of its task, with the
\* requested identifier and the two numbers in that order, and exactly one
\* record in the result list once its future is yielded.
C6_Any2xxYieldsRecord ==
  \A v \in DOMAIN resp : \A w \in WellFormedLocs :
    (Carries(resp[v], w) /\ Is2xx(resp[v].status)) =>
      /\ future[v] # None
      /\ TheOne(future[v]).VIN = v
      /\ TheOne(future[v]).Latitude = Fin(w.lat)
      /\ TheOne(future[v]).Longitude = Fin(w.lon)
      /\ v \in yielded => Cardinality(RecordsOf(v)) = 1

\* C6 amended: the same for a response whose status is 200; the battery and
\* last-updated fields are passed through, absent or not.
C6_Status200YieldsRecord ==
  \A v \in DOMAIN resp : \A w \in WellFormedLocs :
    (Carries(resp[v], w) /\ resp[v].status = 200) =>
      /\ future[v] # None
      /\ TheOne(future[v]).VIN = v
      /\ TheOne(future[v]).Latitude = Fin(w.lat)
      /\ TheOne(future[v]).Longitude = Fin(w.lon)
      /\ TheOne(future[v]).Battery = resp[v].body.batteryCharge
      /\ TheOne(future[v]).LastUpdated = resp[v].body.lastUpdated
      /\ v \in yielded =>
           /\ Cardinality(RecordsOf(v)) = 1
           /\ \A i \in RecordsOf(v) : results[i] = TheOne(future[v])

C6_Witness ==
  /\ pc = "check"
  /\ \E v \in yielded :
       /\ Carries(resp[v], [s |-> Loc_Far, lat |-> -500, lon |-> 300])
       /\ resp[v].status = 200
       /\ resp[v].body.lastUpdated = None
       /\ HasRecord(v)

\* C7: once the fetch stage has started, whatever the endpoint answers, the
\* run ends in the "no live data" halt or in a completed ranking and
\* rendering: no stage fails with an uncaught exception.
C7_NoStageFails == pc \notin {"crash_rank", "crash_progress"}

\* C8: two rows of TOP with exactly equal distance are in the order their
\* records have in the result list.
C8_TiesKeepFetchOrder ==
  pc \in {"render", "done"} =>
    \A i, j \in 1..Len(TOP) :
      (i < j /\ TOP[i].km = TOP[j].km) => PositionOf(TOP[i].rec) < PositionOf(TOP[j].rec)

\* C9: the empty-result check and the ranking begin only when every submitted
\* task has finished and its future has been yielded, whatever the completion
\* order and whatever failed; and the fetch stage, once begun, is left.
C9_FetchRunsToCompletion ==
  /\ [](pc \in PostFetch =>
          /\ submitted = total
          /\ queue = <<>>
          /\ running = {}
          /\ finished = Range(VIN_LIST)
          /\ yielded = Range(VIN_LIST)
          /\ progress = IF total = 0 THEN <<0, 1>> ELSE <<total, total>>)
  /\ (pc = "fetch" ~> pc \in PostFetch)

C9_Witness ==
  /\ pc = "check"
  /\ total = 2
  /\ future[1] = None
  /\ future[2] # None
  /\ results # <<>>
  /\ results[1].VIN = 2

\* C10: at most 20 requests are in flight, on at most 20 workers with one
\* request each, no identifier is both queued and in flight, and while 20 are
\* in flight a queued identifier cannot start.
C10_AtMostTwentyInFlight ==
  /\ Cardinality(running) <= MaxWorkers
  /\ numThreads <= MaxWorkers
  /\ Cardinality(running) <= numThreads
  /\ Range(queue) \cap running = {}
  /\ Cardinality(running) = MaxWorkers => ~ENABLED StartTask

C10_Witness ==
  /\ Cardinality(running) = MaxWorkers
  /\ queue # <<>>
  /\ finished # {}

====
